---- MODULE Spec2Model ----
(***************************************************************************)
(* A model of ml_metadata/tools/mlmd_bench/stats.cc: the per-thread        *)
(* statistics collector ThreadStats of the mlmd_bench benchmark harness.   *)
(*                                                                         *)
(* absl::Time and absl::Duration are integers counting nanoseconds (time   *)
(* since the Unix epoch, the value of a default-constructed absl::Time).   *)
(* A C++ double is an IEEE 754 binary64 value: sign * m * 2^e with a       *)
(* significand m of at most 53 bits, or an infinity, or NaN.  Every        *)
(* operation on doubles rounds its exact result to the nearest such value, *)
(* ties to the even significand, as the code's arithmetic does; formatting *)
(* rounds the exact binary value to the decimals asked for.  Significands  *)
(* are wider than the integers TLC computes with, so they are kept as      *)
(* digit sequences.  The exponent range is not bounded: the values of the  *)
(* model are far from overflow and from the subnormal numbers, and signed  *)
(* zeros are not told apart.                                               *)
(***************************************************************************)
EXTENDS Integers, Sequences, FiniteSets, Bags, TLC

(***************************************************************************)
(* Bounds of the model.                                                    *)
(***************************************************************************)
MaxOps == 3           \* Update calls over all collectors (Spec)
MaxProgressOps == 12  \* Update calls on the collector of SpecProgress
MaxSpanOps == 1       \* Update calls over all collectors (SpecSpan)

(***************************************************************************)
(* Program constants.                                                      *)
(***************************************************************************)
Epoch == 0                \* absl::Time(): a default-constructed time
Microsecond == 1000       \* absl::Microseconds(1), in nanoseconds
InitialNextReport == 100  \* next_report_(100)
report_thresholds == <<1000, 5000, 10000, 50000, 100000, 500000, 1000000>>

(***************************************************************************)
(* Inputs the environment draws from.                                      *)
(***************************************************************************)
Workers == {1, 2}                   \* the worker threads of Spec
Collectors == {1, 2, 3}             \* the collectors of SpecMerge
ClockValues == {1000, 5500, 6000}   \* the readings absl::Now() can give
TransferredBytes == {0, 2}
ElapsedTimes == {0, 1500}
OpStatsSet == [transferred_bytes : TransferredBytes, elapsed_time : ElapsedTimes]
ApproxTotalDone == {99, 100}
ProgressApprox == {0, 5000}
Labels == {"workload"}

VARIABLES
  stats,             \* stats[t]: the fields of collector t
  now,               \* the last reading of absl::Now()
  stderr_out,        \* the progress messages written to stderr, in order
  stdout_out,        \* the report lines written to stdout, in order
  error_log,         \* the number of LOG(ERROR) lines
  workload_summary,  \* the WorkloadConfigResult the caller passes to Report
  phase,             \* history: where collector t is in its lifecycle
  inputs,            \* history: the Update calls on t and the sums of their arguments
  original,          \* history: collector t's fields before any Merge into it
  leaves,            \* history: the bag of collectors folded into t
  last               \* history: the last Report call

vars == <<stats, now, stderr_out, stdout_out, error_log, workload_summary,
          phase, inputs, original, leaves, last>>

\* The collectors.
Threads == DOMAIN stats

(***************************************************************************)
(* Arithmetic.                                                             *)
(***************************************************************************)
Abs(x) == IF x < 0 THEN -x ELSE x

Sign(x) == IF x < 0 THEN -1 ELSE IF x > 0 THEN 1 ELSE 0

Min(a, b) == IF b < a THEN b ELSE a

Max(a, b) == IF a < b THEN b ELSE a

\* C++ integer division (int64 / int64, Duration / Duration): the quotient
\* truncated toward zero.
TruncDiv(a, b) == Sign(a) * Sign(b) * (Abs(a) \div Abs(b))

(***************************************************************************)
(* Natural numbers of any size: the sequence of their digits in base       *)
(* LimbBase, least significant first, without leading zeros (0 is <<>>).   *)
(* They carry the 53-bit significands of doubles and the exact products    *)
(* and quotients that are rounded to them.                                 *)
(***************************************************************************)
LimbBits == 15

LimbBase == 2^LimbBits

\* 2, 4, ..., LimbBase / 2: the powers of two that can divide a digit.
PowersOfTwo == {2^b : b \in 1..(LimbBits - 1)}

\* The digits of A without its leading zeros.
BNorm(A) ==
  IF A = <<>> \/ A[Len(A)] # 0 THEN A
  ELSE SubSeq(A, 1, Cardinality({i \in 1..Len(A) : \E j \in i..Len(A) : A[j] # 0}))

BFromInt(n) ==
  IF n < LimbBase THEN IF n = 0 THEN <<>> ELSE <<n>>
  ELSE IF n \div LimbBase < LimbBase THEN <<n % LimbBase, n \div LimbBase>>
  ELSE <<n % LimbBase, (n \div LimbBase) % LimbBase, n \div (LimbBase * LimbBase)>>

RECURSIVE BToInt(_)
BToInt(A) == IF A = <<>> THEN 0 ELSE A[1] + LimbBase * BToInt(Tail(A))

Limb(A, i) == IF i <= Len(A) THEN A[i] ELSE 0

RECURSIVE BAddFrom(_, _, _, _)
BAddFrom(A, C, i, carry) ==
  IF i > Len(A) /\ i > Len(C)
  THEN IF carry = 0 THEN <<>> ELSE <<carry>>
  ELSE <<(Limb(A, i) + Limb(C, i) + carry) % LimbBase>>
       \o BAddFrom(A, C, i + 1, (Limb(A, i) + Limb(C, i) + carry) \div LimbBase)

BAdd(A, C) ==
  IF C = <<>> THEN A ELSE IF A = <<>> THEN C ELSE BAddFrom(A, C, 1, 0)

RECURSIVE BSubFrom(_, _, _, _)
BSubFrom(A, C, i, borrow) ==
  IF i > Len(A) THEN <<>>
  ELSE <<(A[i] - Limb(C, i) - borrow) % LimbBase>>
       \o BSubFrom(A, C, i + 1, -((A[i] - Limb(C, i) - borrow) \div LimbBase))

\* A - C, for A >= C.
BSub(A, C) == BNorm(BSubFrom(A, C, 1, 0))

\* -1, 0 or 1 as A is less than, equal to or greater than C: the longer is
\* the greater, and of two of one length the one with the greater digit at
\* the highest place where they differ.
BCmp(A, C) ==
  LET top == IF A[Len(A)] # C[Len(A)] THEN Len(A)
             ELSE CHOOSE i \in 1..Len(A) :
                    A[i] # C[i] /\ \A j \in (i + 1)..Len(A) : A[j] = C[j]
  IN  IF Len(A) # Len(C) THEN IF Len(A) < Len(C) THEN -1 ELSE 1
      ELSE IF A = C THEN 0
      ELSE IF A[top] < C[top] THEN -1 ELSE 1

RECURSIVE BMulSmallFrom(_, _, _, _)
BMulSmallFrom(A, k, i, carry) ==
  IF i > Len(A)
  THEN IF carry = 0 THEN <<>> ELSE <<carry>>
  ELSE <<(A[i] * k + carry) % LimbBase>>
       \o BMulSmallFrom(A, k, i + 1, (A[i] * k + carry) \div LimbBase)

\* A * k, for 0 <= k <= LimbBase.
BMulSmall(A, k) == IF k = 0 THEN <<>> ELSE BMulSmallFrom(A, k, 1, 0)

\* A * (the digits of C from the i-th on).
RECURSIVE BMulFrom(_, _, _)
BMulFrom(A, C, i) ==
  IF i > Len(C) THEN <<>>
  ELSE LET rest == BMulFrom(A, C, i + 1)
       IN  BAdd(IF rest = <<>> THEN <<>> ELSE <<0>> \o rest, BMulSmall(A, C[i]))

BMul(A, C) ==
  IF A = <<>> \/ C = <<>> THEN <<>>
  ELSE IF Len(A) < Len(C) THEN BMulFrom(C, A, 1)
  ELSE BMulFrom(A, C, 1)

\* A * 2^s: whole digits of zeros below, and each digit of the rest made of
\* the low bits of one digit of A and the high bits of the digit below it.
BShl(A, s) ==
  LET r == s % LimbBits
      n == IF A[Len(A)] * 2^r < LimbBase THEN Len(A) ELSE Len(A) + 1
  IN  IF A = <<>> THEN <<>>
      ELSE [i \in 1..(s \div LimbBits) |-> 0]
           \o [i \in 1..n |->
                 ((Limb(A, i) * 2^r) % LimbBase)
                 + (IF i = 1 THEN 0 ELSE (A[i - 1] * 2^r) \div LimbBase)]

\* A \div 2^s.
BShr(A, s) ==
  LET r == s % LimbBits
      n == IF A[Len(A)] < 2^r THEN Len(A) - 1 ELSE Len(A)
      drop == s \div LimbBits
  IN  IF drop >= Len(A) THEN <<>>
      ELSE SubSeq([i \in 1..(n - drop) |->
                    (A[drop + i] \div 2^r)
                    + (Limb(A, drop + i + 1) % 2^r) * 2^(LimbBits - r)],
                  1, n - drop)

\* The number of binary digits of one digit x < LimbBase.
BitLenSmall(x) ==
  IF x = 0 THEN 0 ELSE 1 + Cardinality({p \in PowersOfTwo : p <= x})

\* The number of binary digits of A.
BBitLen(A) ==
  IF A = <<>> THEN 0 ELSE LimbBits * (Len(A) - 1) + BitLenSmall(A[Len(A)])

\* The number of zero bits below the lowest one bit of A, for A > 0: the
\* powers of two that divide the lowest non-zero digit, and the zero digits
\* below it.
BTrailingZeros(A) ==
  LET zeros == IF A[1] # 0 THEN 0
               ELSE Cardinality({i \in 1..Len(A) : \A j \in 1..i : A[j] = 0})
  IN  IF A[1] % 2 = 1 THEN 0
      ELSE (LimbBits * zeros)
           + Cardinality({p \in PowersOfTwo : A[zeros + 1] % p = 0})

\* One digit of a long division: the largest q with q * D <= R, found from
\* the estimate over the leading digits, which is at most 2 too large when
\* the leading digit of D is at least LimbBase / 2.
RECURSIVE BDigitDown(_, _, _, _)
BDigitDown(q, T, R, D) ==
  IF BCmp(T, R) > 0 THEN BDigitDown(q - 1, BSub(T, D), R, D)
  ELSE [q |-> q, r |-> BSub(R, T)]

BDigit(R, D) ==
  LET n == Len(D)
      qhat == Min(LimbBase - 1, (Limb(R, n + 1) * LimbBase + Limb(R, n)) \div D[n])
  IN  BDigitDown(qhat, BMulSmall(D, qhat), R, D)

\* The digits of the quotient of R * LimbBase^i + (the i low digits of A)
\* by D, most significant first, and after them one more digit that is 0
\* when nothing remains and 1 otherwise.
RECURSIVE BDivFrom(_, _, _, _)
BDivFrom(A, D, i, R) ==
  IF i = 0 THEN <<IF R = <<>> THEN 0 ELSE 1>>
  ELSE LET step == BDigit(IF R = <<>> /\ A[i] = 0 THEN <<>> ELSE <<A[i]>> \o R, D)
       IN  <<step.q>> \o BDivFrom(A, D, i - 1, step.r)

\* The quotient q of A by D > 0, and whether the division is exact.  Both
\* are first scaled to bring the leading digit of D up to LimbBase / 2; the
\* remainder starts as the leading digits of A, as many as D has if they
\* make a number below D and one fewer if not.
BDiv(A, D) ==
  LET shift == LimbBits - BitLenSmall(D[Len(D)])
      A1 == BShl(A, shift)
      D1 == BShl(D, shift)
      n == Len(D1)
      lead == IF BCmp(SubSeq(A1, Len(A1) - n + 1, Len(A1)), D1) < 0
              THEN n ELSE n - 1
      digits == BDivFrom(A1, D1, Len(A1) - lead,
                         SubSeq(A1, Len(A1) - lead + 1, Len(A1)))
      m == Len(digits) - 1
  IN  IF Len(A1) < n THEN [q |-> <<>>, exact |-> A = <<>>]
      ELSE [q |-> BNorm([i \in 1..m |-> digits[m + 1 - i]]),
            exact |-> digits[m + 1] = 0]

\* A / 2^s (and a little more, unless exact) rounded to the nearest whole
\* number, ties to the even one, for s > 0.  With r = A \div 2^(s-1), the
\* lowest bit of r is the first bit dropped, the bits of A below it and
\* the inexactness say whether more than a half is dropped, and the next
\* bit of r is the parity of the quotient.
BShrNearestEven(A, s, exact) ==
  LET r == BShr(A, s - 1)
      up == /\ r[1] % 2 = 1
            /\ (~exact \/ BTrailingZeros(A) < s - 1 \/ r[1] % 4 = 3)
  IN  IF r = <<>> THEN <<>>
      ELSE BShr(IF up THEN BAdd(r, <<1>>) ELSE r, 1)

(***************************************************************************)
(* C++ double: IEEE 754 binary64.  A finite value is sign * m * 2^e with   *)
(* the significand m below 2^53; it is kept with m odd, which makes the    *)
(* representation of a value unique (zero has sign 0 and m = <<>>).        *)
(***************************************************************************)
SignificandBits == 53

DZero == [kind |-> "finite", sign |-> 0, m |-> <<>>, e |-> 0]

DInf(sign) == [kind |-> "inf", sign |-> sign, m |-> <<>>, e |-> 0]

DNaN == [kind |-> "nan", sign |-> 0, m |-> <<>>, e |-> 0]

DIsFinite(x) == x.kind = "finite"

\* sign * M * 2^e, M of at most 53 bits.
DCanon(sign, M, e) ==
  IF M = <<>> \/ sign = 0 THEN DZero
  ELSE LET tz == BTrailingZeros(M)
       IN  [kind |-> "finite", sign |-> sign, m |-> BShr(M, tz), e |-> e + tz]

\* The double nearest to sign * M * 2^e (and a little more, unless exact),
\* ties to the even significand: the rounding of every arithmetic result.
DRound(sign, M, e, exact) ==
  LET s == BBitLen(M) - SignificandBits
  IN  IF s <= 0 THEN DCanon(sign, M, e)
      ELSE DCanon(sign, BShrNearestEven(M, s, exact), e + s)

\* int64 -> double, exact for the integers of the model.
DFromInt(i) == DRound(Sign(i), BFromInt(Abs(i)), 0, TRUE)

\* x * y, rounded.
DMul(x, y) ==
  IF DIsFinite(x) /\ DIsFinite(y)
  THEN DRound(x.sign * y.sign, BMul(x.m, y.m), x.e + y.e, TRUE)
  ELSE IF x.kind = "nan" \/ y.kind = "nan" \/ x.sign * y.sign = 0 THEN DNaN
  ELSE DInf(x.sign * y.sign)

\* x / y, rounded.  IEEE division: a finite non-zero value divided by zero
\* is an infinity, 0 / 0 is NaN.
DDiv(x, y) ==
  IF DIsFinite(x) /\ DIsFinite(y) /\ y.sign # 0
  THEN LET k == Max(0, SignificandBits + 3 + BBitLen(y.m) - BBitLen(x.m))
           qr == BDiv(BShl(x.m, k), y.m)
       IN  DRound(x.sign * y.sign, qr.q, x.e - y.e - k, qr.exact)
  ELSE IF x.kind = "nan" \/ y.kind = "nan" THEN DNaN
  ELSE IF x.kind = y.kind
       THEN IF DIsFinite(x) /\ x.sign # 0 THEN DInf(x.sign) ELSE DNaN
  ELSE IF x.kind = "inf" THEN DInf(IF y.sign < 0 THEN -x.sign ELSE x.sign)
  ELSE DZero

\* The double nearest to n / d: the value of a decimal literal such as
\* 1e-6, and of a division of two integers converted to double.
Double(n, d) == DDiv(DFromInt(n), DFromInt(d))

\* printf("%.<k>f") of a finite double: the number of 10^-k units nearest
\* to its exact value, ties to even; an infinity or NaN prints as such.
FormatFixed(x, scale) ==
  IF DIsFinite(x)
  THEN LET P == BMulSmall(x.m, scale)
       IN  [finite |-> TRUE,
            units |-> x.sign * BToInt(IF x.e >= 0 THEN BShl(P, x.e)
                                      ELSE BShrNearestEven(P, -x.e, TRUE))]
  ELSE [finite |-> FALSE, units |-> x.sign]

(***************************************************************************)
(* ThreadStats.                                                            *)
(***************************************************************************)
\* ThreadStats::ThreadStats(): start_ and finish_ are default-constructed.
NewThreadStats ==
  [start_ |-> Epoch, finish_ |-> Epoch, accumulated_elapsed_time_ |-> 0,
   done_ |-> 0, bytes_ |-> 0, next_report_ |-> InitialNextReport]

\* The five fields Merge and Report read (the accessors start(), finish(),
\* accumulated_elapsed_time(), done(), bytes()).
Fields(s) ==
  [start_ |-> s.start_, finish_ |-> s.finish_,
   accumulated_elapsed_time_ |-> s.accumulated_elapsed_time_,
   done_ |-> s.done_, bytes_ |-> s.bytes_]

\* A default WorkloadConfigResult: both fields 0.
NewSummary == [bytes_per_second |-> DZero, microseconds_per_operation |-> DZero]

NoReport == [called |-> FALSE]

NoInputs == [calls |-> 0, transferred_bytes |-> 0, elapsed_time |-> 0]

Init ==
  /\ stats = [t \in Workers |-> NewThreadStats]
  /\ now = Epoch
  /\ stderr_out = <<>>
  /\ stdout_out = <<>>
  /\ error_log = 0
  /\ workload_summary = NewSummary
  /\ phase = [t \in Workers |-> "empty"]
  /\ inputs = [t \in Workers |-> NoInputs]
  /\ original = [t \in Workers |-> Fields(NewThreadStats)]
  /\ leaves = [t \in Workers |-> SetToBag({t})]
  /\ last = NoReport

(***************************************************************************)
(* absl::Now(): a reading of the system clock, taken to be non-decreasing. *)
(***************************************************************************)
ClockReadings == {reading \in ClockValues : reading >= now}

RECURSIVE SumCalls(_)
SumCalls(S) ==
  IF S = {} THEN 0
  ELSE LET t == CHOOSE x \in S : TRUE IN inputs[t].calls + SumCalls(S \ {t})

\* The Update calls made so far, over all collectors.
TotalOps == SumCalls(Threads)

(***************************************************************************)
(* void ThreadStats::Start() { start_ = absl::Now(); }                     *)
(***************************************************************************)
StartAt(s, reading) == [s EXCEPT !.start_ = reading]

Start(t) ==
  /\ phase[t] = "empty"
  /\ \E reading \in ClockReadings :
       /\ now' = reading
       /\ stats' = [stats EXCEPT ![t] = StartAt(@, reading)]
  /\ phase' = [phase EXCEPT ![t] = "started"]
  /\ original' = [original EXCEPT ![t] = Fields(stats'[t])]
  /\ UNCHANGED <<stderr_out, stdout_out, error_log, workload_summary, inputs,
                 leaves, last>>

(***************************************************************************)
(* ThreadStats::Update.                                                    *)
(***************************************************************************)
\* Lines 38-40: the three counters.
UpdateCounters(s, op_stats) ==
  [s EXCEPT !.bytes_ = @ + op_stats.transferred_bytes,
            !.accumulated_elapsed_time_ = @ + op_stats.elapsed_time,
            !.done_ = @ + 1]

\* Mutant: the comparison of line 44 as <=.
ReportsProgressStrict(next_report_, approx_total_done) ==
  ~(approx_total_done <= next_report_)

\* Line 44: the early return is taken unless this holds.
ReportsProgress(next_report_, approx_total_done) ==
  ~(approx_total_done < next_report_)

\* Lines 43 and 48-51: threshold_index is a local that is 0 at line 48 in
\* every call; its increment at line 50 is read by nothing.
NextReport(next_report_) ==
  LET threshold_index == 0
  IN  next_report_ + TruncDiv(report_thresholds[threshold_index + 1], 10)

\* Mutant: the early return of line 44 placed before the counters.
UpdateStatsReturnsFirst(s, op_stats, approx_total_done) ==
  IF ReportsProgress(s.next_report_, approx_total_done)
  THEN [UpdateCounters(s, op_stats) EXCEPT !.next_report_ = NextReport(@)]
  ELSE s

\* The collector after the call.
UpdateStats(s, op_stats, approx_total_done) ==
  LET counted == UpdateCounters(s, op_stats)
  IN  IF ReportsProgress(counted.next_report_, approx_total_done)
      THEN [counted EXCEPT !.next_report_ = NextReport(@)]
      ELSE counted

\* Lines 52-53: what the call writes to stderr.
UpdateOutput(s, approx_total_done) ==
  IF ReportsProgress(s.next_report_, approx_total_done)
  THEN <<approx_total_done>>
  ELSE <<>>

Update(t, op_stats, approx_total_done) ==
  /\ phase[t] = "started"
  /\ stats' = [stats EXCEPT ![t] = UpdateStats(@, op_stats, approx_total_done)]
  /\ stderr_out' = stderr_out \o UpdateOutput(stats[t], approx_total_done)
  /\ inputs' = [inputs EXCEPT
                  ![t].calls = @ + 1,
                  ![t].transferred_bytes = @ + op_stats.transferred_bytes,
                  ![t].elapsed_time = @ + op_stats.elapsed_time]
  /\ original' = [original EXCEPT ![t] = Fields(stats'[t])]
  /\ UNCHANGED <<now, stdout_out, error_log, workload_summary, phase, leaves, last>>

(***************************************************************************)
(* void ThreadStats::Stop() { finish_ = absl::Now(); }                     *)
(***************************************************************************)
StopAt(s, reading) == [s EXCEPT !.finish_ = reading]

Stop(t) ==
  /\ phase[t] = "started"
  /\ \E reading \in ClockReadings :
       /\ now' = reading
       /\ stats' = [stats EXCEPT ![t] = StopAt(@, reading)]
  /\ phase' = [phase EXCEPT ![t] = "stopped"]
  /\ original' = [original EXCEPT ![t] = Fields(stats'[t])]
  /\ UNCHANGED <<stderr_out, stdout_out, error_log, workload_summary, inputs,
                 leaves, last>>

(***************************************************************************)
(* ThreadStats::Merge: next_report_ is not merged.                         *)
(***************************************************************************)
\* Mutant: std::min and std::max exchanged.
MergeStatsSwapped(self, other) ==
  [self EXCEPT !.done_ = @ + other.done_,
               !.bytes_ = @ + other.bytes_,
               !.accumulated_elapsed_time_ = @ + other.accumulated_elapsed_time_,
               !.start_ = Max(@, other.start_),
               !.finish_ = Min(@, other.finish_)]

\* Mutant: finish_ taken from the collector merged last.
MergeStatsLastFinish(self, other) ==
  [self EXCEPT !.done_ = @ + other.done_,
               !.bytes_ = @ + other.bytes_,
               !.accumulated_elapsed_time_ = @ + other.accumulated_elapsed_time_,
               !.start_ = Min(@, other.start_),
               !.finish_ = other.finish_]

\* Mutant: a start_ that was never set is not taken for the earliest.
MergeStatsSkipsUnset(self, other) ==
  [self EXCEPT !.done_ = @ + other.done_,
               !.bytes_ = @ + other.bytes_,
               !.accumulated_elapsed_time_ = @ + other.accumulated_elapsed_time_,
               !.start_ = IF other.start_ = Epoch THEN @
                          ELSE IF @ = Epoch THEN other.start_
                          ELSE Min(@, other.start_),
               !.finish_ = Max(@, other.finish_)]

MergeStats(self, other) ==
  [self EXCEPT !.done_ = @ + other.done_,
               !.bytes_ = @ + other.bytes_,
               !.accumulated_elapsed_time_ = @ + other.accumulated_elapsed_time_,
               !.start_ = Min(@, other.start_),
               !.finish_ = Max(@, other.finish_)]

\* A collector the caller still holds: not running, and neither merged into
\* another collector nor reported yet.
Live(t) == phase[t] \in {"empty", "stopped", "merged"}

Merge(t, u) ==
  /\ t # u
  /\ Live(t) /\ Live(u)
  /\ stats' = [stats EXCEPT ![t] = MergeStats(@, Fields(stats[u]))]
  /\ phase' = [phase EXCEPT ![t] = "merged", ![u] = "consumed"]
  /\ leaves' = [leaves EXCEPT ![t] = leaves[t] (+) leaves[u]]
  /\ UNCHANGED <<now, stderr_out, stdout_out, error_log, workload_summary, inputs,
                 original, last>>

(***************************************************************************)
(* ThreadStats::Report.                                                    *)
(***************************************************************************)
\* Lines 78-79: Duration / Duration is an int64 (the truncated quotient),
\* and dividing it by the int64 done_ is an integer division again; the
\* whole number that results is converted to double.
MicrosecondsPerOperation(s) ==
  DFromInt(TruncDiv(TruncDiv(s.accumulated_elapsed_time_, Microsecond), s.done_))

\* Mutant: the rate over the summed busy time.
SpanMicrosecondsBusy(s) == TruncDiv(s.accumulated_elapsed_time_, Microsecond)

\* (finish_ - start_) / absl::Microseconds(1): whole microseconds, an int64.
SpanMicroseconds(s) == TruncDiv(s.finish_ - s.start_, Microsecond)

\* Line 88: the literal 1e-6, the double nearest to one millionth.
OneMillionth == Double(1, 1000000)

\* Line 88: the int64 converted to double, times 1e-6.
ElapsedSeconds(s) == DMul(DFromInt(SpanMicroseconds(s)), OneMillionth)

\* Lines 77 and 85-92: 0.0 unless bytes_ > 0, and then bytes_ divided by
\* elapsed_seconds as doubles, whatever elapsed_seconds is.
BytesPerSecond(s) ==
  IF s.bytes_ > 0 THEN DDiv(DFromInt(s.bytes_), ElapsedSeconds(s)) ELSE DZero

\* Lines 81 and 93: the rate clause, "" unless bytes_ > 0.
Rate(s) ==
  IF s.bytes_ > 0
  THEN <<FormatFixed(DDiv(BytesPerSecond(s), DFromInt(1024)), 10), "KB/s">>
  ELSE <<>>

\* Lines 96-98: the line printed to stdout.
ReportLine(specification, s) ==
  LET rate == Rate(s)
  IN  [specification |-> specification,
       micros_per_op |-> FormatFixed(MicrosecondsPerOperation(s), 1000),
       separator |-> IF rate = <<>> THEN "" ELSE " ",
       rate |-> rate]

\* Lines 102-103.
StoreSummary(s, summary) ==
  [summary EXCEPT !.bytes_per_second = BytesPerSecond(s),
                  !.microseconds_per_operation = MicrosecondsPerOperation(s)]

\* Mutant: the error path stores zeros.
NeverExecutedClears(s, summary) == NewSummary

\* Lines 72-75: the workload was never executed; the summary is not touched.
NeverExecuted(s, summary) == summary

\* Line 72.
HasNotRun(s) == s.done_ = 0

\* The divisions a call carries out: none on the path of lines 72-75;
\* otherwise the two of line 79 and, with bytes_ > 0, those of lines 88, 92
\* and 93.
ReportDivisions(s) == IF HasNotRun(s) THEN 0 ELSE IF s.bytes_ > 0 THEN 5 ELSE 2

\* Report tests nothing but done_: it is called on a collector in any state
\* of its lifecycle, one between Start and Stop included. The caller
\* reports a collector it still holds, once.
Reportable(t) == Live(t) \/ phase[t] = "started"

Report(t, specification) ==
  /\ Reportable(t)
  /\ IF HasNotRun(stats[t])
     THEN /\ error_log' = error_log + 1
          /\ workload_summary' = NeverExecuted(stats[t], workload_summary)
          /\ UNCHANGED stdout_out
     ELSE /\ stdout_out' = Append(stdout_out, ReportLine(specification, stats[t]))
          /\ workload_summary' = StoreSummary(stats[t], workload_summary)
          /\ UNCHANGED error_log
  /\ last' = [called |-> TRUE, stats |-> Fields(stats[t]), leaves |-> leaves[t],
              phase_before |-> phase[t], divisions |-> ReportDivisions(stats[t]),
              summary_before |-> workload_summary,
              stdout_before |-> stdout_out, error_log_before |-> error_log]
  /\ phase' = [phase EXCEPT ![t] = "reported"]
  /\ UNCHANGED <<stats, now, stderr_out, inputs, original, leaves>>

(***************************************************************************)
(* The benchmark: the caller spawns the worker threads in order; each runs *)
(* Start, Update*, Stop on its own collector; once no worker runs, the     *)
(* caller merges collectors pairwise and reports, single-threaded, each    *)
(* collector being merged into another or reported at most once.  The      *)
(* caller can also report a collector that is between Start and Stop; its  *)
(* worker then makes no further call on it.                                *)
(***************************************************************************)
Running == \E t \in Threads : phase[t] = "started"

Aggregating == \E t \in Threads : phase[t] \in {"merged", "consumed", "reported"}

StartStep ==
  \E t \in Threads :
    /\ ~Aggregating
    /\ \A u \in Threads : u < t => phase[u] # "empty"
    /\ Start(t)

UpdateStep ==
  \E t \in Threads, op_stats \in OpStatsSet, approx_total_done \in ApproxTotalDone :
    /\ TotalOps < MaxOps
    /\ Update(t, op_stats, approx_total_done)

StopStep == \E t \in Threads : Stop(t)

MergeStep == \E t \in Threads, u \in Threads : ~Running /\ Merge(t, u)

ReportStep ==
  \E t \in Threads, specification \in Labels :
    /\ ~Running \/ phase[t] = "started"
    /\ Report(t, specification)

Next == StartStep \/ UpdateStep \/ StopStep \/ MergeStep \/ ReportStep

Spec == Init /\ [][Next]_vars

(***************************************************************************)
(* SpecMerge: the aggregation alone, over three collectors. Each collector *)
(* is one a worker can hand over: a new one, or one that ran Start, some   *)
(* Update calls and Stop.                                                  *)
(***************************************************************************)
RECURSIVE UpdateAll(_, _)
UpdateAll(s, calls) ==
  IF calls = <<>> THEN s
  ELSE UpdateAll(UpdateStats(s, Head(calls).op_stats, Head(calls).approx_total_done),
                 Tail(calls))

\* What the calls write to stderr, in order (lines 52-53 of each).
RECURSIVE OutputAll(_, _)
OutputAll(s, calls) ==
  IF calls = <<>> THEN <<>>
  ELSE UpdateOutput(s, Head(calls).approx_total_done)
       \o OutputAll(UpdateStats(s, Head(calls).op_stats, Head(calls).approx_total_done),
                    Tail(calls))

RECURSIVE SumInputs(_)
SumInputs(calls) ==
  IF calls = <<>> THEN NoInputs
  ELSE LET rest == SumInputs(Tail(calls))
       IN  [calls |-> rest.calls + 1,
            transferred_bytes |-> rest.transferred_bytes
                                    + Head(calls).op_stats.transferred_bytes,
            elapsed_time |-> rest.elapsed_time + Head(calls).op_stats.elapsed_time]

\* The collector of a worker that ran: Start, the Update calls, Stop.
Ran(run) == StopAt(UpdateAll(StartAt(NewThreadStats, run.start), run.calls), run.finish)

Call(bytes, elapsed, approx) ==
  [op_stats |-> [transferred_bytes |-> bytes, elapsed_time |-> elapsed],
   approx_total_done |-> approx]

SampleCalls == {<<Call(2, 1500, 100)>>, <<Call(0, 0, 99), Call(2, 1500, 99)>>}

SampleRuns ==
  {[ran |-> FALSE]}
    \cup {run \in [ran : {TRUE}, start : ClockValues, finish : ClockValues,
                    calls : SampleCalls] : run.finish >= run.start}

Handed(run) == IF run.ran THEN Ran(run) ELSE NewThreadStats

\* What the worker of a handed collector wrote to stderr.
HandedOutput(run) ==
  IF run.ran THEN OutputAll(StartAt(NewThreadStats, run.start), run.calls) ELSE <<>>

\* stderr after the workers of the collectors in S ran, one after the
\* other in the order of their collectors.
RECURSIVE OutputOfRuns(_, _)
OutputOfRuns(run, S) ==
  IF S = {} THEN <<>>
  ELSE LET t == CHOOSE x \in S : \A y \in S : x <= y
       IN  HandedOutput(run[t]) \o OutputOfRuns(run, S \ {t})

SetMax(S) == CHOOSE x \in S : \A y \in S : y <= x

InitMerge ==
  \E run \in [Collectors -> SampleRuns] :
    /\ stats = [t \in Collectors |-> Handed(run[t])]
    /\ now = SetMax({Epoch} \cup {stats[t].finish_ : t \in Collectors})
    /\ stderr_out = OutputOfRuns(run, Collectors)
    /\ stdout_out = <<>>
    /\ error_log = 0
    /\ workload_summary = NewSummary
    /\ phase = [t \in Collectors |-> IF run[t].ran THEN "stopped" ELSE "empty"]
    /\ inputs = [t \in Collectors |->
                   IF run[t].ran THEN SumInputs(run[t].calls) ELSE NoInputs]
    /\ original = [t \in Collectors |-> Fields(stats[t])]
    /\ leaves = [t \in Collectors |-> SetToBag({t})]
    /\ last = NoReport

NextMerge == MergeStep

SpecMerge == InitMerge /\ [][NextMerge]_vars

(***************************************************************************)
(* SpecSpan: three workers that run Start, Update*, Stop on their          *)
(* collectors under the one clock, and a caller that then merges the       *)
(* collectors, a merged one with the third in either direction.            *)
(***************************************************************************)
InitSpan ==
  /\ stats = [t \in Collectors |-> NewThreadStats]
  /\ now = Epoch
  /\ stderr_out = <<>>
  /\ stdout_out = <<>>
  /\ error_log = 0
  /\ workload_summary = NewSummary
  /\ phase = [t \in Collectors |-> "empty"]
  /\ inputs = [t \in Collectors |-> NoInputs]
  /\ original = [t \in Collectors |-> Fields(NewThreadStats)]
  /\ leaves = [t \in Collectors |-> SetToBag({t})]
  /\ last = NoReport

SpanUpdateStep ==
  \E t \in Threads, op_stats \in OpStatsSet, approx_total_done \in ApproxTotalDone :
    /\ TotalOps < MaxSpanOps
    /\ Update(t, op_stats, approx_total_done)

NextSpan == StartStep \/ SpanUpdateStep \/ StopStep \/ MergeStep

SpecSpan == InitSpan /\ [][NextSpan]_vars

(***************************************************************************)
(* SpecProgress: one worker that calls Update many times.                  *)
(***************************************************************************)
ProgressWorker == CHOOSE t \in Workers : TRUE

ProgressStart == Start(ProgressWorker)

ProgressUpdate ==
  \E op_stats \in OpStatsSet, approx_total_done \in ProgressApprox :
    /\ inputs[ProgressWorker].calls < MaxProgressOps
    /\ Update(ProgressWorker, op_stats, approx_total_done)

NextProgress == ProgressStart \/ ProgressUpdate

SpecProgress == Init /\ [][NextProgress]_vars

(***************************************************************************)
(* What the collectors folded into one collector add up to, computed from  *)
(* the fields each had before any Merge.                                   *)
(***************************************************************************)
RECURSIVE LeafSumOver(_, _, _)
LeafSumOver(S, B, field) ==
  IF S = {} THEN 0
  ELSE LET t == CHOOSE x \in S : TRUE
       IN  CopiesIn(t, B) * original[t][field] + LeafSumOver(S \ {t}, B, field)

LeafSum(B, field) == LeafSumOver(BagToSet(B), B, field)

LeafValues(B, field) == {original[t][field] : t \in BagToSet(B)}

LeafMin(B, field) == CHOOSE m \in LeafValues(B, field) : \A v \in LeafValues(B, field) : m <= v

LeafMax(B, field) == CHOOSE m \in LeafValues(B, field) : \A v \in LeafValues(B, field) : v <= m

Unmerged(t) == leaves[t] = SetToBag({t})

(***************************************************************************)
(* C1. After N Update calls on a new collector, whether they returned      *)
(* early or reported progress, done_ is N, bytes_ is the sum of the        *)
(* transferred_bytes passed and accumulated_elapsed_time_ the sum of the   *)
(* elapsed_time passed.                                                    *)
(***************************************************************************)
C1_UpdateCountsAndSums ==
  \A t \in Threads :
    Unmerged(t) =>
      /\ stats[t].done_ = inputs[t].calls
      /\ stats[t].bytes_ = inputs[t].transferred_bytes
      /\ stats[t].accumulated_elapsed_time_ = inputs[t].elapsed_time

\* Three calls, one of which reported progress, with bytes and time passed.
C1_Witness ==
  \E t \in Threads :
    /\ Unmerged(t)
    /\ inputs[t].calls = 3
    /\ stats[t].next_report_ = 200
    /\ inputs[t].transferred_bytes > 0
    /\ inputs[t].elapsed_time > 0

(***************************************************************************)
(* C2. However stopped collectors are merged (in any order, pairwise or    *)
(* as a tree), the collector they end up in holds the sums of their        *)
(* done_, bytes_ and accumulated_elapsed_time_, the minimum of their       *)
(* start_ and the maximum of their finish_.                                *)
(***************************************************************************)
C2_MergeIsFoldOfLeaves ==
  \A t \in Threads :
    /\ stats[t].done_ = LeafSum(leaves[t], "done_")
    /\ stats[t].bytes_ = LeafSum(leaves[t], "bytes_")
    /\ stats[t].accumulated_elapsed_time_ =
         LeafSum(leaves[t], "accumulated_elapsed_time_")
    /\ stats[t].start_ = LeafMin(leaves[t], "start_")
    /\ stats[t].finish_ = LeafMax(leaves[t], "finish_")

\* Three collectors that ran, with different spans, merged into one whose
\* own start_ is not the earliest and whose own finish_ is not the latest.
C2_Witness ==
  \E t \in Threads :
    /\ BagCardinality(leaves[t]) = 3
    /\ \A u \in Threads : original[u].done_ > 0
    /\ \A u \in Threads, v \in Threads : u # v => original[u] # original[v]
    /\ original[t].start_ > stats[t].start_
    /\ original[t].finish_ < stats[t].finish_

(***************************************************************************)
(* C7. A collector that ran Start, Update*, Stop under a non-decreasing    *)
(* clock has finish_ >= start_, and so has every collector merged from     *)
(* such collectors, whatever the number and the order of the merges.       *)
(***************************************************************************)
C7_FinishNotBeforeStart ==
  \A t \in Threads : phase[t] # "started" => stats[t].finish_ >= stats[t].start_

\* Three collectors that ran with different spans, one of them with
\* Update calls, after two merges: one collector holds all three, and
\* neither its start_ nor its finish_ is the one it had itself.
C7_Witness ==
  \E t \in Threads :
    /\ phase[t] = "merged"
    /\ BagCardinality(leaves[t]) = 3
    /\ \A u \in Threads : original[u].start_ > Epoch
    /\ \A u \in Threads, v \in Threads : u # v => original[u] # original[v]
    /\ \E u \in Threads : original[u].done_ > 0
    /\ original[t].start_ > stats[t].start_
    /\ original[t].finish_ < stats[t].finish_

(***************************************************************************)
(* C9. next_report_ starts at 100. An Update call writes one progress      *)
(* message if and only if approx_total_done >= next_report_ as the call    *)
(* finds it; next_report_ grows in a call that writes and is unchanged in  *)
(* one that does not; no other operation changes it.                       *)
(***************************************************************************)
C9_UpdateStep(t, op_stats, approx_total_done) ==
  Update(t, op_stats, approx_total_done) =>
    IF approx_total_done >= stats[t].next_report_
    THEN /\ stderr_out' = Append(stderr_out, approx_total_done)
         /\ stats'[t].next_report_ > stats[t].next_report_
    ELSE /\ stderr_out' = stderr_out
         /\ stats'[t].next_report_ = stats[t].next_report_

C9_Step ==
  /\ \A t \in Threads : inputs[t].calls = 0 => stats[t].next_report_ = 100
  /\ \A t \in Threads : stats'[t].next_report_ >= stats[t].next_report_
  /\ \A t \in Threads, op_stats \in OpStatsSet, approx_total_done \in ApproxTotalDone :
       C9_UpdateStep(t, op_stats, approx_total_done)
  /\ \A t \in Threads :
       inputs'[t].calls = inputs[t].calls =>
         stats'[t].next_report_ = stats[t].next_report_
  /\ (\A t \in Threads : inputs'[t].calls = inputs[t].calls) =>
       stderr_out' = stderr_out

C9_WatermarkOnlyAdvancesOnProgress == [][C9_Step]_vars

\* A collector that reported progress once (at approx_total_done equal to
\* the watermark), returned early once, and was then merged into and
\* reported.
C9_Witness ==
  \E t \in Threads :
    /\ inputs[t].calls = 2
    /\ stats[t].next_report_ = 200
    /\ stderr_out = <<100>>
    /\ phase[t] = "reported"
    /\ ~Unmerged(t)

(***************************************************************************)
(* The last Report call: the collector it was called on and what it left.  *)
(***************************************************************************)
Reported == last.called /\ last.stats.done_ > 0

LastLine == stdout_out[Len(stdout_out)]

\* The wall-clock span of the collectors folded into the reported one, in
\* nanoseconds: the latest finish_ minus the earliest start_.
WallClockSpan == LeafMax(last.leaves, "finish_") - LeafMin(last.leaves, "start_")

\* The double x agrees with the fraction n / d (n > 0 and d > 0 whole
\* numbers) to double precision: it differs from it by at most 2^-51 of
\* it, the three roundings of an arithmetic carried out in doubles.
AgreesWith(x, n, d) ==
  /\ DIsFinite(x)
  /\ x.sign = 1
  /\ LET xd == BMul(x.m, BFromInt(d))
          lhs == IF x.e >= 0 THEN BShl(xd, x.e) ELSE xd
          rhs == IF x.e >= 0 THEN n ELSE BShl(n, -x.e)
          diff == IF BCmp(lhs, rhs) >= 0 THEN BSub(lhs, rhs) ELSE BSub(rhs, lhs)
      IN  BCmp(BShl(diff, 51), rhs) <= 0

\* bytes * scale, which can exceed the integers TLC computes with.
Scaled(bytes, scale) == BMul(BFromInt(bytes), BFromInt(scale))

(***************************************************************************)
(* C3. Report on a collector with bytes_ > 0 and finish_ = start_ stores   *)
(* bytes_per_second = 0: no division by a zero elapsed_seconds, no         *)
(* infinite rate.                                                          *)
(***************************************************************************)
C3_ZeroSpanGivesZeroRate ==
  (Reported /\ last.stats.bytes_ > 0 /\ last.stats.finish_ = last.stats.start_) =>
    workload_summary.bytes_per_second = DZero

(***************************************************************************)
(* C4. Report on a collector with done_ = 0 (a new one, one that was       *)
(* started, one that was started and stopped, one merged from such) carries *)
(* out no division, writes nothing to stdout and leaves both fields of the *)
(* summary as they were; it logs the error and returns.                    *)
(***************************************************************************)
C4_NeverExecutedLeavesSummary ==
  (last.called /\ last.stats.done_ = 0) =>
    /\ last.divisions = 0
    /\ workload_summary = last.summary_before
    /\ stdout_out = last.stdout_before
    /\ error_log = last.error_log_before + 1

\* Report on a collector that was started and neither updated nor stopped,
\* with a summary that an earlier Report had filled in.
C4_Witness ==
  /\ last.called
  /\ last.stats.done_ = 0
  /\ last.phase_before = "started"
  /\ last.summary_before.microseconds_per_operation # DZero
  /\ last.summary_before.bytes_per_second # DZero
  /\ last.stdout_before # <<>>

(***************************************************************************)
(* C5 as stated: with done_ > 0, Report stores bytes_per_second = 0 and    *)
(* prints no rate clause when bytes_ = 0; when bytes_ > 0 and the span is  *)
(* positive it stores bytes_ divided by the wall-clock span in seconds, to  *)
(* double precision.                                                       *)
(***************************************************************************)
C5_RateOverExactSpan ==
  Reported =>
    /\ last.stats.bytes_ = 0 =>
         /\ workload_summary.bytes_per_second = DZero
         /\ LastLine.rate = <<>>
    /\ (last.stats.bytes_ > 0 /\ WallClockSpan > 0) =>
         AgreesWith(workload_summary.bytes_per_second,
                    Scaled(last.stats.bytes_, 1000000000), WallClockSpan)

(***************************************************************************)
(* C5 as amended: with done_ > 0, Report stores bytes_per_second = 0 and   *)
(* prints no rate clause when bytes_ = 0; when bytes_ > 0 and the          *)
(* wall-clock span (latest finish_ minus earliest start_ of the merged     *)
(* collectors) is at least one microsecond, it stores bytes_ divided by    *)
(* the span cut down to whole microseconds, in seconds, to double          *)
(* precision; never by the summed accumulated_elapsed_time_.               *)
(***************************************************************************)
C5_RateOverWholeMicroseconds ==
  Reported =>
    /\ last.stats.bytes_ = 0 =>
         /\ workload_summary.bytes_per_second = DZero
         /\ LastLine.rate = <<>>
         /\ LastLine.separator = ""
    /\ (last.stats.bytes_ > 0 /\ WallClockSpan >= 1000) =>
         /\ AgreesWith(workload_summary.bytes_per_second,
                       Scaled(last.stats.bytes_, 1000000), WallClockSpan \div 1000)
         /\ LastLine.rate # <<>>

\* Report on a collector merged from two that ran, with bytes, whose span
\* of 4.5 microseconds differs from the 3 microseconds of summed busy time.
C5_Witness ==
  /\ Reported
  /\ last.stats.bytes_ > 0
  /\ BagCardinality(last.leaves) = 2
  /\ \A t \in BagToSet(last.leaves) : original[t].done_ > 0
  /\ WallClockSpan = 4500
  /\ last.stats.accumulated_elapsed_time_ = 3000

(***************************************************************************)
(* C6. With done_ > 0, Report stores microseconds_per_operation = the      *)
(* accumulated microseconds divided by done_ as a fraction (1 microsecond  *)
(* over 2 operations gives 0.5), not the quotient cut down to a whole      *)
(* number.                                                                 *)
(***************************************************************************)
C6_FractionalAverage ==
  Reported =>
    workload_summary.microseconds_per_operation =
      Double(last.stats.accumulated_elapsed_time_ \div 1000, last.stats.done_)

(***************************************************************************)
(* C8. An Update call that advances next_report_ advances it by one tenth  *)
(* of the first band of report_thresholds that next_report_ has not        *)
(* exceeded: by 100 up to 1000, by 500 once past 1000, by 1000 once past   *)
(* 5000, and so on.                                                        *)
(***************************************************************************)
BandsNotExceeded(next_report_) ==
  {i \in DOMAIN report_thresholds : next_report_ <= report_thresholds[i]}

BandIncrement(next_report_) ==
  LET i == IF BandsNotExceeded(next_report_) = {} THEN Len(report_thresholds)
           ELSE CHOOSE j \in BandsNotExceeded(next_report_) :
                  \A k \in BandsNotExceeded(next_report_) : j <= k
  IN  report_thresholds[i] \div 10

C8_WatermarkStepsByBand ==
  [][\A t \in Threads :
       stats'[t].next_report_ # stats[t].next_report_ =>
         stats'[t].next_report_ =
           stats[t].next_report_ + BandIncrement(stats[t].next_report_)]_vars

(***************************************************************************)
(* C10 as stated: merging a new collector into a stopped collector X whose *)
(* start_ is after the epoch, or X into a new collector, gives X's five    *)
(* fields.                                                                 *)
(***************************************************************************)
\* Collector t holds exactly x and the never started collector f.
FoldOfRunAndNew(t, x, f) ==
  /\ x # f
  /\ leaves[t] = SetToBag({x, f})
  /\ original[x].start_ > Epoch
  /\ original[x].finish_ >= original[x].start_
  /\ original[f] = Fields(NewThreadStats)

C10_NewCollectorIsNeutral ==
  \A t \in Threads, x \in Threads, f \in Threads :
    FoldOfRunAndNew(t, x, f) => Fields(stats[t]) = original[x]

(***************************************************************************)
(* C10 as amended: merging a new collector into a stopped collector X      *)
(* whose start_ is after the epoch, or X into a new collector, gives X's   *)
(* done_, bytes_, accumulated_elapsed_time_ and finish_, and the epoch as  *)
(* start_: the new collector's default start_ is the earlier one.          *)
(***************************************************************************)
C10_NewCollectorResetsStart ==
  \A t \in Threads, x \in Threads, f \in Threads :
    FoldOfRunAndNew(t, x, f) =>
      Fields(stats[t]) = [original[x] EXCEPT !.start_ = Epoch]

\* X, which ran with bytes, merged into a new collector.
C10_Witness ==
  \E t \in Threads, x \in Threads :
    /\ FoldOfRunAndNew(t, x, t)
    /\ original[x].done_ > 0
    /\ original[x].bytes_ > 0
====
